---------------------------- MODULE Spec2Model ----------------------------
(***************************************************************************)
(* A model of fivek_crawler.py: class FivekCrawler.                        *)
(*                                                                         *)
(* Strings are sequences of one-character strings, so that the regular     *)
(* expression scan, str.split, slicing, int() and str.replace are computed *)
(* character by character, as the Python code computes them.               *)
(***************************************************************************)
EXTENDS Integers, Sequences, FiniteSets, TLC

(***************************************************************************)
(* Bounds of the model.                                                    *)
(***************************************************************************)
\* image indices that occur in listing texts and ranges: 0..MaxIndex
MaxIndex == 2
\* number of paths a listing text holds at most
MaxItems == 2
\* number of direct download_image calls a client makes before main()
MaxClientCalls == 2

(***************************************************************************)
(* Program constants.                                                      *)
(***************************************************************************)
\* while retry < 3 / if retry == 3
MaxRetry == 3
\* assert 0 <= image_from <= 5000, 0 <= image_to <= 5000
IndexLimit == 5000
\* crawler = FivekCrawler(..., max_workers=5, ...)
MainWorkers == 5

(***************************************************************************)
(* Characters and strings.                                                 *)
(***************************************************************************)
DigitChars == <<"0", "1", "2", "3", "4", "5", "6", "7", "8", "9">>

IsDigit(c) == \E i \in 1..10 : DigitChars[i] = c

DigitVal(c) == (CHOOSE i \in 1..10 : DigitChars[i] = c) - 1

\* \s of the re module, within the alphabet of the model
IsSpace(c) == c \in {" ", "\n", "\t"}

\* the sequence s[a..b], 1-based, empty when a > b
Slice(s, a, b) == [i \in 1..(IF b >= a THEN b - a + 1 ELSE 0) |-> s[a + i - 1]]

\* s starts with p at position i
StartsAt(s, p, i) ==
    /\ i >= 1
    /\ i + Len(p) - 1 <= Len(s)
    /\ \A k \in 1..Len(p) : s[i + k - 1] = p[k]

\* n written with four decimal digits (the file names of the dataset)
Digits4(n) ==
    << DigitChars[((n \div 1000) % 10) + 1], DigitChars[((n \div 100) % 10) + 1],
       DigitChars[((n \div 10) % 10) + 1], DigitChars[(n % 10) + 1] >>

ImgPrefix == <<"i", "m", "g", "/", "t", "i", "f", "f", "1", "6", "_">>

TifSuffix == <<"t", "i", "f">>

\* the relative path img/tiff16_<e>/<e><nnnn>.tif of the dataset
PathText(e, n) ==
    ImgPrefix \o <<e, "/", e>> \o Digits4(n) \o <<".">> \o TifSuffix


(***************************************************************************)
(* State.                                                                  *)
(***************************************************************************)
VARIABLES
    \* FivekCrawler.__init__
    expert_list,        \* self.expert_list: a sequence of one-character ids
    max_workers,        \* self.max_workers
    image_from,         \* self.image_from
    image_to,           \* self.image_to
    incomplete_images,  \* self.incomplete_images: the identity of a list
    \* the heap: lists[i] is the content of the list object of identity i
    lists,
    \* the environment: the server and the file system
    listingReply,       \* the listing GET: "200", "non200" or "neterr";
                        \* "none" before it is made
    page,               \* the listing page a 200 reply carried: "full",
                        \* "other", "merged"; "none" without one
    dirs,               \* experts e whose folder tiff16_<e> exists
    files,              \* local image path -> "absent", "complete",
                        \* "partial" or "errorpage"
    \* locals of main()
    mainPc,             \* where main() is
    exc,                \* the exception main() ended with, "none" if none
    htmlKind,           \* what _make_request returned: "str", "None";
                        \* "unset" before
    web_html,           \* the text handed to _get_expert_images_url
    genPos,             \* urls: position in web_html the scan resumes at
    genState,           \* urls: "ready", "exhausted" or "raised"
    mkIdx,              \* for i in self.expert_list: index of the next i
    folder_dir,         \* expert of the folder last created, "" if unbound
    image_path,         \* image_path of line 195, <<>> while unbound
    futures,            \* futures
    pbar,               \* pbar.n: the pbar.update(1) calls of the phase
    future,             \* future: a call, 0 while unbound
    remains,            \* remains: the identity of a list, 0 while unbound
    \* download_image invocations, in order of creation
    calls,
    \* history, for the properties
    phase,              \* 0 before the pools, 1 bulk, 2 first cleanup, ...
    yielded,            \* what the generator has yielded so far, in order
    submitted,          \* saver.submit calls made: <<phase, url, path>>
    clientCalls         \* direct download_image calls made by the client

configVars == <<expert_list, max_workers, image_from, image_to>>

envVars == <<listingReply, page, dirs, files>>

genVars == <<web_html, genPos, genState, yielded>>

mainVars ==
    <<mainPc, exc, htmlKind, mkIdx, folder_dir, image_path, futures, pbar,
      future, remains, phase, submitted>>

workVars == <<incomplete_images, lists, calls, clientCalls>>

vars == <<configVars, envVars, genVars, mainVars, workVars>>

(***************************************************************************)
(* _get_expert_images_url: the scan                                        *)
(*     re.finditer(rf"img/tiff16_[{expert_list}]/\S*.tif", web_html)       *)
(* and the filter on int(url.group().split("/")[-1][1:5]).                 *)
(***************************************************************************)
SetMax(S) == CHOOSE x \in S : \A y \in S : y <= x

SetMin(S) == CHOOSE x \in S : \A y \in S : x <= y

\* [{expert_list}] with expert_list = "".join(self.expert_list)
InExpertClass(c) == \E i \in 1..Len(expert_list) : expert_list[i] = c

\* the length of the longest run of non-whitespace characters of t from p
NonSpaceRun(t, p) ==
    SetMax({k \in 0..(Len(t) - p + 1) :
                \A j \in 0..(k - 1) : ~IsSpace(t[p + j])})

\* where \S* may stop so that ".tif" follows: "." is any character but a
\* newline, and \S* is greedy, so the longest k is the one taken
TailChoices(t, p) ==
    {k \in 0..NonSpaceRun(t, p) :
        /\ p + k + 3 <= Len(t)
        /\ t[p + k] # "\n"
        /\ StartsAt(t, TifSuffix, p + k + 1)}

\* the index of the last character of the match that starts at s, 0 if the
\* pattern does not match at s
MatchEnd(t, s) ==
    IF /\ StartsAt(t, ImgPrefix, s)
       /\ s + 12 <= Len(t)
       /\ InExpertClass(t[s + 11])
       /\ t[s + 12] = "/"
       /\ TailChoices(t, s + 13) # {}
    THEN s + 13 + SetMax(TailChoices(t, s + 13)) + 3
    ELSE 0

\* finditer: the leftmost match at or after pos, as <<start, end>>;
\* <<0, 0>> when there is none
FindMatch(t, pos) ==
    LET starts == {s \in pos..Len(t) : MatchEnd(t, s) # 0}
    IN  IF starts = {} THEN <<0, 0>>
        ELSE <<SetMin(starts), MatchEnd(t, SetMin(starts))>>

\* url.split("/")[-1]
LastSegment(u) ==
    LET slashes == {i \in 1..Len(u) : u[i] = "/"}
    IN  IF slashes = {} THEN u ELSE Slice(u, SetMax(slashes) + 1, Len(u))

\* s.strip() for the whitespace int() ignores
Strip(s) ==
    LET keep == {i \in 1..Len(s) : ~IsSpace(s[i])}
    IN  IF keep = {} THEN <<>> ELSE Slice(s, SetMin(keep), SetMax(keep))

RECURSIVE DecimalValue(_)
DecimalValue(s) ==
    IF s = <<>> THEN 0
    ELSE 10 * DecimalValue(Slice(s, 1, Len(s) - 1)) + DigitVal(s[Len(s)])

\* int(s) for s without sign and underscore: the value, -1 for ValueError
ParseInt(s) ==
    LET d == Strip(s)
    IN  IF d # <<>> /\ \A i \in 1..Len(d) : IsDigit(d[i])
        THEN DecimalValue(d) ELSE -1

\* int(url.group().split("/")[-1][1:5])
UrlIndex(u) ==
    LET seg == LastSegment(u)
    IN  ParseInt(Slice(seg, 2, IF Len(seg) < 5 THEN Len(seg) ELSE 5))

\* InRange with both comparisons strict: the bounds are left out
InRangeExclusive(idx) == image_from < idx /\ idx < image_to

\* self.image_from <= url_index <= self.image_to
InRange(idx) == image_from <= idx /\ idx <= image_to

\* one next() of the generator from scan position pos: what it does
\* ("yield", "stop" for StopIteration, "ValueError"), the string it yields
\* and the position the scan resumes at
RECURSIVE GenNext(_, _)
GenNext(t, pos) ==
    LET m == FindMatch(t, pos)
        u == Slice(t, m[1], m[2])
    IN  IF m[1] = 0
        THEN [kind |-> "stop", url |-> <<>>, pos |-> Len(t) + 1]
        ELSE IF UrlIndex(u) = -1
        THEN [kind |-> "ValueError", url |-> <<>>, pos |-> m[2] + 1]
        ELSE IF InRange(UrlIndex(u))
        THEN [kind |-> "yield", url |-> u, pos |-> m[2] + 1]
        ELSE GenNext(t, m[2] + 1)

(***************************************************************************)
(* Listing texts and configurations the model draws its inputs from.       *)
(***************************************************************************)
\* expert ids that occur in listing texts; "c" is never configured
TextExperts == {"a", "b", "c"}

ExpertLists == {<<"a">>, <<"a", "b">>}

\* what follows a path in a listing text: whitespace, or markup without any
Separators == {<<" ">>, <<",">>}

Items ==
    {PathText(e, n) \o sep : e \in TextExperts, n \in 0..MaxIndex,
                             sep \in Separators}

RECURSIVE Concat(_)
Concat(ss) == IF ss = <<>> THEN <<>> ELSE Head(ss) \o Concat(Tail(ss))

ListingTexts ==
    {Concat(items) : items \in UNION {[1..k -> Items] : k \in 0..MaxItems}}

\* assert image_from < image_to, 0 <= image_from, image_to <= 5000
Ranges ==
    {r \in (0..MaxIndex) \X (0..MaxIndex) :
        r[1] < r[2] /\ 0 <= r[1] /\ r[2] <= IndexLimit}

\* max_workers: the 5 of the script, and 0, which __init__ accepts too
WorkerCounts == {0, MainWorkers}

\* the ranges main() is run with: those that end at MaxIndex
MainRanges == {r \in Ranges : r[2] = MaxIndex}

(***************************************************************************)
(* Paths.                                                                  *)
(***************************************************************************)
\* self.saving_dir
SavingDir == <<"d">>

\* str(folder_dir.parent), folder_dir being
\* Path(f"{saving_dir}/fivek_expert/tiff16_{expert_id}")
ParentDir ==
    SavingDir \o <<"/", "f", "i", "v", "e", "k", "_", "e", "x", "p", "e", "r", "t">>

\* s.replace(old, new): every occurrence, left to right
RECURSIVE ReplaceAll(_, _, _)
ReplaceAll(s, old, new) ==
    IF s = <<>> THEN <<>>
    ELSE IF StartsAt(s, old, 1)
    THEN new \o ReplaceAll(Slice(s, Len(old) + 1, Len(s)), old, new)
    ELSE <<s[1]>> \o ReplaceAll(Tail(s), old, new)

\* image_path = url.replace("img", str(folder_dir.parent))
ImagePath(url) == ReplaceAll(url, <<"i", "m", "g">>, ParentDir)

\* the tasks a client asks for, [url, image_path] as main() would pair them:
\* an image of expert a and one of expert b. download_image reads neither
\* string, so they are kept whole.
ClientTasks ==
    { <<"img/tiff16_a/a0000.tif", "d/fivek_expert/tiff16_a/a0000.tif">>,
      <<"img/tiff16_b/b0001.tif", "d/fivek_expert/tiff16_b/b0001.tif">> }

\* the expert e of the folder tiff16_<e> the path of a client task lies in
FolderOf(path) ==
    CASE path = "d/fivek_expert/tiff16_a/a0000.tif" -> "a"
      [] path = "d/fivek_expert/tiff16_b/b0001.tif" -> "b"
      [] OTHER -> "none"

(***************************************************************************)
(* download_image(url, image_path): one invocation is a record of calls.   *)
(*   origin   "client" (called directly) or "pool" (saver.submit)          *)
(*   phase    the phase that submitted it, 0 for a direct call             *)
(*   pc       "queued" (work item of the pool), "running", "done"          *)
(*   retry    the local retry                                              *)
(*   attempts rq.get calls made; appended: appends made; last: what the    *)
(*            last attempt ended with                                      *)
(***************************************************************************)
\* what one pass through the try block can end with:
\*   ok          the body was streamed to the file, status 200
\*   badstatus   the server answered 4xx/5xx: rq.get returns the response
\*               (raise_for_status is never called) and its body is written
\*   timeout     rq.get raised Timeout
\*   reqerror    rq.get raised another RequestException
\*   streamerror r.iter_content raised a RequestException after open()
\*   oserror     open(image_path, "wb") raised OSError
Outcomes ==
    {"ok", "badstatus", "timeout", "reqerror", "streamerror", "oserror"}

NewCall(origin, ph, task) ==
    [origin |-> origin, phase |-> ph, url |-> task[1], path |-> task[2],
     pc |-> IF origin = "pool" THEN "queued" ELSE "running",
     retry |-> 0, attempts |-> 0, appended |-> 0, last |-> "none"]

\* except Timeout: retry += 1
RetryAfter(call, o) == IF o = "timeout" THEN call.retry + 1 ELSE call.retry

\* Appends with the test "if retry == 3" left out: every timeout appends
AppendsOnAnyTimeout(call, o) ==
    o \in {"timeout", "reqerror", "streamerror"}

\* whether the pass appends [url, image_path] to self.incomplete_images
Appends(call, o) ==
    \/ o = "timeout" /\ RetryAfter(call, o) = MaxRetry
    \/ o \in {"reqerror", "streamerror"}

\* LoopsAgain with the break of "except (HTTPError, RequestException)" left
\* out: a request error is retried like a timeout
LoopsAgainOnError(call, o) ==
    \/ o = "timeout" /\ RetryAfter(call, o) < MaxRetry
    \/ o \in {"reqerror", "streamerror"} /\ call.retry + 1 < MaxRetry

\* LoopsAgain with the test of "while retry < 3" left out: every timeout
\* sends the loop round again
LoopsAgainOnEveryTimeout(call, o) == o = "timeout"

\* whether the while loop goes round again: no break, no exception that
\* leaves the function, and retry < 3
LoopsAgain(call, o) == o = "timeout" /\ RetryAfter(call, o) < MaxRetry

\* the file at image_path after the pass
FileAfter(old, o) ==
    CASE o = "ok" -> "complete"
      [] o = "badstatus" -> "errorpage"
      [] o = "streamerror" -> "partial"
      [] OTHER -> old

\* open(image_path, "wb") succeeds only in an existing folder
CanOpen(call) == FolderOf(call.path) \in dirs

\* one pass through the body of "while retry < 3" of invocation c
Attempt(c, o) ==
    /\ c \in 1..Len(calls)
    /\ calls[c].pc = "running"
    /\ calls[c].retry < MaxRetry
    /\ o \in {"ok", "badstatus", "streamerror"} => CanOpen(calls[c])
    /\ calls' = [calls EXCEPT ![c] =
            [@ EXCEPT !.retry = RetryAfter(calls[c], o),
                      !.attempts = @ + 1,
                      !.last = o,
                      !.appended = IF Appends(calls[c], o) THEN @ + 1 ELSE @,
                      !.pc = IF LoopsAgain(calls[c], o)
                             THEN "running" ELSE "done"]]
    /\ lists' = IF Appends(calls[c], o)
                THEN [lists EXCEPT ![incomplete_images] =
                        Append(@, <<calls[c].url, calls[c].path>>)]
                ELSE lists
    /\ files' = [files EXCEPT ![calls[c].path] = FileAfter(@, o)]
    /\ UNCHANGED <<configVars, listingReply, page, dirs, genVars, mainVars,
                   incomplete_images, clientCalls>>

\* PoolSize with the argument left out of the call, ThreadPoolExecutor(): the
\* pool takes a size of its own, here the 5 of the script
PoolSizeDefault == MainWorkers

\* ThreadPoolExecutor(max_workers=self.max_workers): the size of the pool
PoolSize == max_workers

\* ThreadPoolExecutor.__init__ raises ValueError("max_workers must be
\* greater than 0")
PoolRejects == PoolSize <= 0

\* a worker thread of the pool takes a work item from the queue: the pool
\* starts a thread only while it has fewer than its size
PoolStart(c) ==
    /\ c \in 1..Len(calls)
    /\ calls[c].pc = "queued"
    /\ Cardinality({d \in 1..Len(calls) :
            calls[d].origin = "pool" /\ calls[d].pc = "running"}) < PoolSize
    /\ calls' = [calls EXCEPT ![c].pc = "running"]
    /\ UNCHANGED <<configVars, envVars, genVars, mainVars, incomplete_images,
                   lists, clientCalls>>

(***************************************************************************)
(* The client of the class: it may call download_image itself, one call    *)
(* at a time, before it calls main(). The client's thread has one frame:   *)
(* the record of a new direct call takes the place of the last one's.      *)
(***************************************************************************)
ClientBusy ==
    \E c \in 1..Len(calls) : calls[c].origin = "client" /\ calls[c].pc # "done"

ClientCall(task) ==
    /\ mainPc = "idle"
    /\ ~ClientBusy
    /\ clientCalls < MaxClientCalls
    /\ calls' = <<NewCall("client", 0, task)>>
    /\ clientCalls' = clientCalls + 1
    /\ UNCHANGED <<configVars, envVars, genVars, mainVars, incomplete_images,
                   lists>>

(***************************************************************************)
(* main()                                                                  *)
(***************************************************************************)
\* the client calls main()
CallMain ==
    /\ mainPc = "idle"
    /\ ~ClientBusy
    /\ mainPc' = "request"
    /\ UNCHANGED <<configVars, envVars, genVars, exc, htmlKind, mkIdx,
                   folder_dir, image_path, futures, pbar, future, remains,
                   phase, submitted, workVars>>

\* a listing with one path for every configured expert and every index of
\* the inclusive range, each followed by a blank
RECURSIVE ListingOf(_, _)
ListingOf(e, n) ==
    IF e > Len(expert_list) THEN <<>>
    ELSE IF n > image_to THEN ListingOf(e + 1, image_from)
    ELSE PathText(expert_list[e], n) \o <<" ">> \o ListingOf(e, n + 1)

FullListing == ListingOf(1, image_from)

\* a page that names one image of an expert that is not configured
OtherPage == PathText("c", image_from) \o <<" ">>

\* a page on which markup without whitespace joins two paths: an image of
\* the first configured expert and one of an expert that is not configured
MergedPage ==
    PathText(expert_list[1], image_from) \o <<",">>
        \o PathText("c", image_from) \o <<" ">>

\* the pages a 200 reply carries
PageKinds == {"full", "other", "merged"}

\* web_rq.text of a 200 reply that carries the page p
PageText(p) ==
    CASE p = "full" -> FullListing
      [] p = "merged" -> MergedPage
      [] OTHER -> OtherPage

\* urls = self._get_expert_images_url(self._make_request(header, timeout=5))
\* _make_request returns the text on status 200, calls exit() on another
\* status, and returns None after printing the class of an exception; the
\* generator function runs nothing before its first next()
MakeRequest ==
    /\ mainPc = "request"
    /\ \/ /\ listingReply' = "200"
          /\ page' \in PageKinds
          /\ htmlKind' = "str"
          /\ web_html' = PageText(page')
          /\ mainPc' = "mkdirs"
          /\ exc' = exc
       \/ /\ listingReply' = "neterr"
          /\ page' = page
          /\ htmlKind' = "None"
          /\ web_html' = web_html
          /\ mainPc' = "mkdirs"
          /\ exc' = exc
       \/ /\ listingReply' = "non200"
          /\ page' = page
          /\ htmlKind' = htmlKind
          /\ web_html' = web_html
          /\ mainPc' = "raised"
          /\ exc' = "SystemExit"
    /\ UNCHANGED <<configVars, dirs, files, genPos, genState, yielded, mkIdx,
                   folder_dir, image_path, futures, pbar, future, remains,
                   phase, submitted, workVars>>

\* for i in self.expert_list: folder_dir = self._create_expert_folder(i, ...)
\* and, after the last i, lines 189-193: total_images, tqdm, the pool of the
\* bulk phase (ValueError when it is given no worker), futures = []
CreateExpertFolder ==
    /\ mainPc = "mkdirs"
    /\ \/ /\ expert_list[mkIdx] \notin dirs        \* folder_dir.mkdir(parents=True)
          /\ dirs' = dirs \cup {expert_list[mkIdx]}
       \/ /\ expert_list[mkIdx] \in dirs           \* except FileExistsError
          /\ dirs' = dirs
    /\ folder_dir' = expert_list[mkIdx]
    /\ mkIdx' = mkIdx + 1
    /\ mainPc' = CASE mkIdx < Len(expert_list) -> "mkdirs"
                    [] mkIdx = Len(expert_list) /\ PoolRejects -> "raised"
                    [] OTHER -> "bulk"
    /\ exc' = IF mkIdx = Len(expert_list) /\ PoolRejects
              THEN "ValueError" ELSE exc
    /\ phase' = IF mkIdx = Len(expert_list) /\ ~PoolRejects THEN 1 ELSE phase
    /\ futures' = <<>>
    /\ pbar' = 0
    /\ UNCHANGED <<configVars, listingReply, page, files, genVars, htmlKind,
                   image_path, future, remains, submitted, workVars>>

\* total_images = (self.image_to - self.image_from) * len(self.expert_list)
total_images == (image_to - image_from) * Len(expert_list)

\* what the step "for i, url in enumerate(urls, start=1)" with its body
\* (lines 194-199) ends with:
\*   "TypeError"      re.finditer(pattern, None) at the first next(urls)
\*   "ValueError"     int() in the generator
\*   "stop"           the generator is exhausted: the loop is left
\*   "AttributeError" an element was yielded: it is a str (url.group() of the
\*                    generator), image_path = url.replace(...) is computed,
\*                    and url.group() in the arguments of saver.submit raises
BulkStep ==
    IF htmlKind = "None" THEN "TypeError"
    ELSE LET g == GenNext(web_html, genPos)
         IN  CASE g.kind = "stop" -> "stop"
               [] g.kind = "ValueError" -> "ValueError"
               [] OTHER -> "AttributeError"

\* one round of the loop of lines 194-199. No round reaches saver.submit, so
\* no round reaches "if i % total_images == 0: break" either. An exception
\* leaves both with blocks: the pool has no work item to wait for.
BulkIterate ==
    /\ mainPc = "bulk"
    /\ LET g == GenNext(web_html, genPos)
       IN  /\ genPos' = IF htmlKind = "None" THEN genPos ELSE g.pos
           /\ genState' = CASE BulkStep = "stop" -> "exhausted"
                            [] BulkStep = "AttributeError" -> "ready"
                            [] OTHER -> "raised"
           /\ yielded' = IF BulkStep = "AttributeError"
                         THEN Append(yielded, g.url) ELSE yielded
           /\ image_path' = IF BulkStep = "AttributeError"
                            THEN ImagePath(g.url) ELSE image_path
    /\ mainPc' = IF BulkStep = "stop" THEN "bulk_wait" ELSE "raised"
    /\ exc' = IF BulkStep = "stop" THEN exc ELSE BulkStep
    /\ UNCHANGED <<configVars, envVars, web_html, htmlKind, mkIdx, folder_dir,
                   futures, pbar, future, remains, phase, submitted,
                   workVars>>

\* for future in as_completed(futures): pbar.update(1), and the end of the
\* two with blocks: every future of the phase is done
BulkWait ==
    /\ mainPc = "bulk_wait"
    /\ \A c \in 1..Len(calls) : calls[c].origin = "pool" => calls[c].pc = "done"
    /\ pbar' = pbar + Len(futures)
    /\ mainPc' = "drain"
    /\ UNCHANGED <<configVars, envVars, genVars, exc, htmlKind, mkIdx,
                   folder_dir, image_path, futures, future, remains, phase,
                   submitted, workVars>>

\* FreshList with the reset left out, as at line 214: self.incomplete_images
\* stays the list remains is bound to
FreshListAliased == incomplete_images

\* self.incomplete_images = []: the identity of the new list
FreshList == Len(lists) + 1

\* remains = self.incomplete_images; self.incomplete_images = []
Drain ==
    /\ mainPc = "drain"
    /\ remains' = incomplete_images
    /\ lists' = Append(lists, <<>>)
    /\ incomplete_images' = FreshList
    /\ mainPc' = "while"
    /\ UNCHANGED <<configVars, envVars, genVars, exc, htmlKind, mkIdx,
                   folder_dir, image_path, futures, pbar, future, phase,
                   submitted, calls, clientCalls>>

\* while remains: and, when the list is not empty, lines 206-208: tqdm, the
\* pool of the cleanup phase (ValueError when it is given no worker),
\* futures = []
CleanupTest ==
    /\ mainPc = "while"
    /\ \/ /\ lists[remains] = <<>>
          /\ mainPc' = "returned"
          /\ UNCHANGED <<phase, exc, pbar>>
       \/ /\ lists[remains] # <<>>
          /\ mainPc' = IF PoolRejects THEN "raised" ELSE "cleanup"
          /\ exc' = IF PoolRejects THEN "ValueError" ELSE exc
          /\ phase' = IF PoolRejects THEN phase ELSE phase + 1
          /\ pbar' = 0
    /\ futures' = <<>>
    /\ UNCHANGED <<configVars, envVars, genVars, htmlKind, mkIdx, folder_dir,
                   image_path, future, remains, submitted, workVars>>

\* the first round of "for i_url, i_path in remains": saver.submit(...), then
\* futures.append(future). future is a local of main() that only line 196
\* (never reached past url.group()) and the loop of line 200 (futures is
\* empty there) assign: it is unbound, and the round raises
\* UnboundLocalError after the submit.
CleanupSubmit ==
    /\ mainPc = "cleanup"
    /\ future = 0
    /\ calls' = Append(calls, NewCall("pool", phase, lists[remains][1]))
    /\ submitted' = Append(submitted,
            <<phase, lists[remains][1][1], lists[remains][1][2]>>)
    /\ mainPc' = "unwind"
    /\ exc' = "UnboundLocalError"
    /\ UNCHANGED <<configVars, envVars, genVars, htmlKind, mkIdx, folder_dir,
                   image_path, futures, pbar, future, remains, phase,
                   incomplete_images, lists, clientCalls>>

\* ThreadPoolExecutor.__exit__ on the way out: shutdown(wait=True) returns
\* when the submitted work item has run; the exception then leaves main()
Unwind ==
    /\ mainPc = "unwind"
    /\ \A c \in 1..Len(calls) : calls[c].origin = "pool" => calls[c].pc = "done"
    /\ mainPc' = "raised"
    /\ UNCHANGED <<configVars, envVars, genVars, exc, htmlKind, mkIdx,
                   folder_dir, image_path, futures, pbar, future, remains,
                   phase, submitted, workVars>>

(***************************************************************************)
(* The crawler: construction, then the client and main().                  *)
(***************************************************************************)
Init ==
    /\ expert_list \in ExpertLists
    /\ max_workers \in WorkerCounts
    /\ \E r \in MainRanges : image_from = r[1] /\ image_to = r[2]
    /\ incomplete_images = 1
    /\ lists = << <<>> >>
    /\ listingReply = "none"
    /\ page = "none"
    /\ dirs \in {{}, {expert_list[i] : i \in 1..Len(expert_list)}}
    /\ files = [q \in {t[2] : t \in ClientTasks} |-> "absent"]
    /\ mainPc = "idle"
    /\ exc = "none"
    /\ htmlKind = "unset"
    /\ web_html = <<>>
    /\ genPos = 1
    /\ genState = "ready"
    /\ mkIdx = 1
    /\ folder_dir = ""
    /\ image_path = <<>>
    /\ futures = <<>>
    /\ pbar = 0
    /\ future = 0
    /\ remains = 0
    /\ calls = <<>>
    /\ phase = 0
    /\ yielded = <<>>
    /\ submitted = <<>>
    /\ clientCalls = 0

Next ==
    \/ \E task \in ClientTasks : ClientCall(task)
    \/ \E c \in 1..Len(calls), o \in Outcomes : Attempt(c, o)
    \/ \E c \in 1..Len(calls) : PoolStart(c)
    \/ CallMain
    \/ MakeRequest
    \/ CreateExpertFolder
    \/ BulkIterate
    \/ BulkWait
    \/ Drain
    \/ CleanupTest
    \/ CleanupSubmit
    \/ Unwind

Spec == Init /\ [][Next]_vars

\* the steps of the thread that runs main(), but for the round of the loop
\* of lines 194-199
MainStep ==
    \/ MakeRequest
    \/ CreateExpertFolder
    \/ BulkWait
    \/ Drain
    \/ CleanupTest
    \/ CleanupSubmit
    \/ Unwind

\* the round of the loop of lines 194-199, seen by where main() is alone:
\* BulkIterate is enabled whenever main() is there, and it is the one step
\* that moves main() on from there
BulkMoves == mainPc = "bulk" /\ mainPc' \in {"bulk_wait", "raised"}

\* the steps of the threads that run download_image
WorkerStep ==
    \/ \E c \in 1..Len(calls), o \in Outcomes : Attempt(c, o)
    \/ \E c \in 1..Len(calls) : PoolStart(c)

\* the crawler as the script builds it, with 5 workers, and with the default
\* image_from of __init__
InitLive == Init /\ max_workers = MainWorkers /\ image_from = 0

\* the crawler with its threads scheduled: main() goes on while it can, a
\* worker takes a queued work item while the pool has room, and every
\* attempt of a download returns
LiveSpec ==
    /\ InitLive
    /\ [][Next]_vars
    /\ WF_vars(MainStep)
    /\ WF_mainPc(BulkMoves)
    /\ WF_vars(WorkerStep)

(***************************************************************************)
(* Properties of download_image and main().                                *)
(***************************************************************************)
CallIds == 1..Len(calls)

TaskOf(c) == <<calls[c].url, calls[c].path>>

\* how often task occurs in the list of identity l
Occurrences(l, task) ==
    Cardinality({i \in 1..Len(lists[l]) : lists[l][i] = task})

\* the invocations the pool of phase k ran
PoolCalls(k) == {c \in CallIds : calls[c].origin = "pool" /\ calls[c].phase = k}

\* main() has ended: it returned or an exception left it
MainEnded == mainPc \in {"returned", "raised"}

\* the pool of the current phase has shut down behind its last work item
PhaseOver == phase >= 1 /\ mainPc \in {"drain", "while", "returned", "raised"}

\* this step is one pass of invocation c through its try block
AttemptStep(c) ==
    /\ c \in 1..Len(calls')
    /\ calls'[c].attempts = calls[c].attempts + 1

\* this step appends the task of invocation c to self.incomplete_images
AppendStep(c) ==
    lists' = [lists EXCEPT ![incomplete_images] = Append(@, TaskOf(c))]

\* C6, on every invocation: at most 3 attempts; one that still runs has only
\* seen timeouts, fewer than 3; one whose third attempt timed out is done
\* and has appended once
C6_State ==
    \A c \in CallIds :
        /\ calls[c].attempts <= MaxRetry
        /\ (calls[c].pc = "running" /\ calls[c].attempts > 0)
                => (calls[c].last = "timeout" /\ calls[c].retry < MaxRetry)
        /\ (calls[c].last = "timeout" /\ calls[c].attempts = MaxRetry)
                => (calls[c].pc = "done" /\ calls[c].appended = 1)
        /\ calls[c].last \in {"none", "timeout", "ok"}
                => (calls[c].appended = 1 <=> calls[c].attempts = MaxRetry
                                              /\ calls[c].last = "timeout")
        /\ calls[c].last \in {"none", "timeout", "ok"}
                => calls[c].appended \in {0, 1}

\* C6, on every attempt: it follows nothing or a timeout, with fewer than 3
\* attempts made; an attempt that times out appends the task to
\* self.incomplete_images exactly when it is the third, and otherwise leaves
\* every list as it is; an attempt that succeeds leaves every list as it is
C6_Step ==
    \A c \in CallIds :
        AttemptStep(c) =>
            /\ calls[c].last \in {"none", "timeout"}
            /\ calls[c].attempts < MaxRetry
            /\ calls'[c].last = "timeout"
                => IF calls'[c].attempts = MaxRetry
                   THEN AppendStep(c) ELSE lists' = lists
            /\ calls'[c].last = "ok" => lists' = lists

\* C6: a download_image invocation makes at most 3 attempts, starts a
\* further attempt only after a timeout and only while fewer than 3 timeouts
\* have occurred, and (request errors, the subject of C7, aside) appends its
\* [url, image_path] to self.incomplete_images exactly when its third
\* attempt times out; one that succeeds after 1 or 2 timeouts appends nothing
C6_ThreeAttempts == []C6_State /\ [][C6_Step]_vars

\* C6's case: an invocation timed out three times and its task is in the list
C6_Witness ==
    \E c \in CallIds :
        /\ calls[c].attempts = MaxRetry
        /\ calls[c].last = "timeout"
        /\ Occurrences(incomplete_images, TaskOf(c)) >= 1

\* C7, on every attempt that ends with a request error that is no timeout:
\* the step appends the task once and the invocation is done
C7_Step ==
    \A c \in CallIds :
        (AttemptStep(c) /\ calls'[c].last \in {"reqerror", "streamerror"})
            => (AppendStep(c) /\ calls'[c].pc = "done"
                /\ calls'[c].appended = 1)

\* C7, afterwards: the record of a finished invocation changes no more,
\* unless a new invocation takes the frame
C7_Stopped ==
    \A c \in CallIds :
        calls[c].pc = "done" => (calls'[c] = calls[c] \/ calls'[c].attempts = 0)

\* C7: an attempt of download_image that raises a request error that is no
\* timeout, the first attempt or one after timeouts, appends the task to
\* self.incomplete_images exactly once and ends the invocation: no further
\* attempt is made
C7_ErrorStopsAtOnce == [][C7_Step /\ C7_Stopped]_vars

\* C7's case: a request error on an attempt that followed a timeout
C7_Witness ==
    \E c \in CallIds :
        /\ calls[c].last = "reqerror"
        /\ calls[c].retry >= 1
        /\ calls[c].pc = "done"
        /\ Occurrences(incomplete_images, TaskOf(c)) = 1

\* C1: once a phase has run its downloads and recorded no new failure,
\* main() returns: when main() has ended after a phase whose resubmitted
\* downloads all succeeded, it has ended by returning
C1_ReturnsAfterCleanPhase ==
    (/\ MainEnded
     /\ PoolCalls(phase) # {}
     /\ \A c \in PoolCalls(phase) : calls[c].pc = "done" /\ calls[c].appended = 0)
        => mainPc = "returned"

\* C2: at the start of a cleanup phase the failure list is drained and
\* reset: once the phase is over, every task of the drained batch has been
\* submitted in it exactly once and nothing else has, and the list the
\* workers append to is another container than the batch
C2_BatchIsDrainedList ==
    (phase >= 2 /\ PhaseOver) =>
        /\ remains # incomplete_images
        /\ \A i \in 1..Len(lists[remains]) :
              Cardinality({j \in 1..Len(submitted) :
                    submitted[j] = <<phase, lists[remains][i][1],
                                     lists[remains][i][2]>>})
                = Occurrences(remains, lists[remains][i])
        /\ \A j \in 1..Len(submitted) :
              submitted[j][1] = phase =>
                  Occurrences(remains, <<submitted[j][2], submitted[j][3]>>) >= 1

\* C3: a task whose every attempt in a phase timed out is in the failure
\* list exactly once when the phase is over, and has been submitted again,
\* in the next phase, by the time main() ends
C3_TimedOutTaskIsRetried ==
    \A c \in CallIds :
        (/\ calls[c].origin = "pool"
         /\ calls[c].pc = "done"
         /\ calls[c].last = "timeout"
         /\ calls[c].phase = phase
         /\ PhaseOver)
            => /\ Occurrences(incomplete_images, TaskOf(c)) = 1
               /\ MainEnded =>
                    \E j \in 1..Len(submitted) :
                        submitted[j] = <<calls[c].phase + 1, calls[c].url,
                                         calls[c].path>>

\* C4: in every phase, a download task whose first attempt in the phase
\* succeeds is not in self.incomplete_images when the phase is over (its
\* pool has shut down)
C4_FirstAttemptSuccessNotListed ==
    \A c \in CallIds :
        (/\ calls[c].origin = "pool"
         /\ calls[c].phase = phase
         /\ PhaseOver
         /\ calls[c].attempts = 1
         /\ calls[c].last = "ok")
            => Occurrences(incomplete_images, TaskOf(c)) = 0

\* C4's case: a phase is over in which a task succeeded at its first attempt
C4_Witness ==
    \E c \in CallIds :
        /\ calls[c].origin = "pool"
        /\ calls[c].phase = phase
        /\ PhaseOver
        /\ calls[c].attempts = 1
        /\ calls[c].last = "ok"
        /\ files[calls[c].path] = "complete"

\* C5: when a phase is over, every task attempted in it that is not in the
\* failure list has a completely written copy of the image at its path
C5_UnlistedTaskHasFile ==
    \A c \in CallIds :
        (/\ calls[c].origin = "pool"
         /\ calls[c].phase = phase
         /\ PhaseOver
         /\ Occurrences(incomplete_images, TaskOf(c)) = 0)
            => files[calls[c].path] = "complete"

\* the bulk phase's loop of submissions is behind main()
BulkSubmitted == phase >= 1 /\ mainPc # "bulk"

\* C8: every path the generator has yielded has been submitted to the pool
\* of the bulk phase, exactly once and as remote path, when the loop of
\* submissions is left
C8_EveryYieldedPathSubmitted ==
    BulkSubmitted =>
        \A i \in 1..Len(yielded) :
            Cardinality({j \in 1..Len(submitted) :
                submitted[j][1] = 1 /\ submitted[j][2] = yielded[i]}) = 1

\* C9: with a listing that holds one path per configured expert for every
\* index of the range, the bulk phase submits (image_to - image_from) *
\* len(expert_list) tasks, the precomputed total
C9_TaskCountIsTotal ==
    (BulkSubmitted /\ htmlKind = "str" /\ web_html = FullListing) =>
        Cardinality({j \in 1..Len(submitted) : submitted[j][1] = 1})
            = total_images

(***************************************************************************)
(* Properties of the phases of main(): barrier, pool, failure records.     *)
(***************************************************************************)
\* this step is a saver.submit
SubmitStep == Len(submitted') = Len(submitted) + 1

\* this step binds remains to self.incomplete_images: main() reads the
\* failure list to decide on the next phase
ReadStep == remains' # remains

\* every invocation the pools were given so far has finished
PoolIdle ==
    \A c \in CallIds : calls[c].origin = "pool" => calls[c].pc = "done"

\* C11, on every step: main() reads the failure list, and submits the first
\* task of a phase, only when no download of an earlier phase still runs
C11_Step ==
    /\ ReadStep => PoolIdle
    /\ SubmitStep =>
          \A c \in CallIds :
              (calls[c].origin = "pool" /\ calls[c].phase < phase)
                  => calls[c].pc = "done"

\* C11, at the end: after a phase that submitted downloads main() has read
\* the failure list again; it ends only by finding the list empty
C11_Decided ==
    (MainEnded /\ PoolCalls(phase) # {})
        => (mainPc = "returned" /\ lists[remains] = <<>>)

\* the waiting of C11 alone, on every step
C11_Waits == [][C11_Step]_vars

Running == {c \in CallIds : calls[c].pc = "running"}

\* C12: bounded parallelism. In the bulk phase and in every cleanup phase
\* the number of download_image invocations running at the same time is at
\* most max_workers
C12_AtMostMaxWorkers == phase >= 1 => Cardinality(Running) <= max_workers

\* C12's case: a download runs in the pool of a cleanup phase
C12_Witness ==
    \E c \in Running :
        /\ calls[c].origin = "pool"
        /\ calls[c].phase = phase
        /\ phase >= 2
        /\ calls[c].attempts >= 1

\* the list of identity l holds the task
Holds(l, task) == l # 0 /\ Occurrences(l, task) >= 1

\* C13, at every time: a failure a worker of a pool appended is still held,
\* by the list the workers append to or by the batch main() drained
C13_Kept ==
    \A c \in CallIds :
        (calls[c].origin = "pool" /\ calls[c].appended >= 1)
            => (Holds(incomplete_images, TaskOf(c)) \/ Holds(remains, TaskOf(c)))

\* C13, at the end: a failure a worker appended during phase k has been
\* resubmitted, off the batch of phase k+1
C13_Resubmitted ==
    \A c \in CallIds :
        (/\ calls[c].origin = "pool"
         /\ calls[c].appended >= 1
         /\ MainEnded)
            => \E j \in 1..Len(submitted) :
                  /\ submitted[j][1] = calls[c].phase + 1
                  /\ <<submitted[j][2], submitted[j][3]>> = TaskOf(c)

\* C13: no lost failure records. Every failure a worker appends during a
\* phase is in the batch main() resubmits in the next phase; no append is
\* lost to another append or to the reset of the list
C13_NoLostFailure == C13_Kept /\ C13_Resubmitted

\* no two download_image invocations are running at the same time
AtMostOneRunning == Cardinality(Running) <= 1

\* the listing GET has failed: a network-level error or a status that is not
\* 200
ListingFailed == listingReply \in {"neterr", "non200"}

\* C15, on every step after the failure: no folder is created, no download
\* is submitted or started
C15_Step ==
    ListingFailed =>
        /\ dirs' = dirs
        /\ submitted' = submitted
        /\ calls' = calls

\* C15: a failed listing fetch is fatal. When the listing GET raises a
\* network-level error, and when it returns a status that is not 200, the
\* run aborts with nothing further done: no expert directory is created and
\* no download task is submitted after the failure
C15_FailedListingIsFatal == [][C15_Step]_vars

\* f"{saving_dir}/fivek_expert/tiff16_{e}", the folder of expert e
ExpertDirText(e) ==
    SavingDir \o <<"/", "f", "i", "v", "e", "k", "_", "e", "x", "p", "e", "r",
                   "t", "/", "t", "i", "f", "f", "1", "6", "_", e>>

\* the file path lies in the folder dir itself, not below it
LiesIn(path, dir) ==
    /\ StartsAt(path, dir \o <<"/">>, 1)
    /\ Len(path) > Len(dir) + 1
    /\ \A i \in (Len(dir) + 2)..Len(path) : path[i] # "/"

\* the expert of a remote path img/tiff16_<e>/...
UrlExpert(u) == u[Len(ImgPrefix) + 1]

\* the folder of every configured expert has been ensured
FoldersEnsured ==
    /\ mkIdx = Len(expert_list) + 1
    /\ \A i \in 1..Len(expert_list) : expert_list[i] \in dirs

\* C16: ordering of setup and downloads. The folder of every configured
\* expert has been ensured before main() builds and submits its first
\* download task, and the local path of every task main() builds lies in
\* the folder tiff16_<expert> of the task's own expert under
\* {saving_dir}/fivek_expert
C16_FoldersFirstAndOwnFolder ==
    /\ (submitted # <<>> \/ yielded # <<>>) => FoldersEnsured
    /\ image_path # <<>> =>
          LiesIn(image_path, ExpertDirText(UrlExpert(yielded[Len(yielded)])))

\* the number of tasks submitted in phase k
SubmittedIn(k) == Cardinality({j \in 1..Len(submitted) : submitted[j][1] = k})

\* C17: completion tracking. In every phase main() tracks one future per
\* task submitted in that phase and none of an earlier phase, so when the
\* phase is over the number of pbar.update(1) calls made in it equals the
\* number of tasks submitted in it
C17_OneUpdatePerTask ==
    /\ \A i \in 1..Len(futures) : calls[futures[i]].phase = phase
    /\ PhaseOver => pbar = SubmittedIn(phase)

\* one run of main() submits at most one download task
AtMostOneSubmit == Len(submitted) <= 1

\* main() is inside a phase: between the creation of the phase's pool and
\* the end of the pool's with block
InPhase == mainPc \in {"bulk", "bulk_wait", "cleanup", "unwind"}

\* the submission loop of a cleanup phase submits no more tasks than the
\* batch holds
C19_FiniteSubmissions ==
    phase >= 2 => SubmittedIn(phase) <= Len(lists[remains])

\* C19: every phase terminates. With every attempt of a download returning
\* and the workers scheduled fairly, the submission loop of a phase submits
\* a finite number of tasks and the phase reaches its end, the shutdown of
\* its pool behind the last download, however the workers' appends
\* interleave with main()
C19_PhaseTerminates == []C19_FiniteSubmissions /\ (InPhase ~> ~InPhase)

\* C19's case: a cleanup phase has ended whose download failed, the worker
\* appending to the failure list while main() was inside the phase
C19_Witness ==
    /\ phase >= 2
    /\ ~InPhase
    /\ \E c \in PoolCalls(phase) :
          /\ calls[c].pc = "done"
          /\ calls[c].appended = 1
          /\ Holds(incomplete_images, TaskOf(c))

(***************************************************************************)
(* The URL extractor on its own: a consumer that draws every element of    *)
(* _get_expert_images_url(web_html), as list(...) does.                    *)
(***************************************************************************)
InitExtract ==
    /\ expert_list \in ExpertLists
    /\ max_workers = MainWorkers
    /\ \E r \in Ranges : image_from = r[1] /\ image_to = r[2]
    /\ incomplete_images = 1
    /\ lists = << <<>> >>
    /\ listingReply = "200"
    /\ page = "other"
    /\ dirs = {}
    /\ files = << >>
    /\ mainPc = "idle"
    /\ exc = "none"
    /\ htmlKind = "str"
    /\ web_html \in ListingTexts
    /\ genPos = 1
    /\ genState = "ready"
    /\ mkIdx = 1
    /\ folder_dir = ""
    /\ image_path = <<>>
    /\ futures = <<>>
    /\ pbar = 0
    /\ future = 0
    /\ remains = 0
    /\ calls = <<>>
    /\ phase = 0
    /\ yielded = <<>>
    /\ submitted = <<>>
    /\ clientCalls = 0

\* next(urls)
ExtractNext ==
    /\ genState = "ready"
    /\ LET g == GenNext(web_html, genPos)
       IN  /\ genPos' = g.pos
           /\ genState' = CASE g.kind = "yield" -> "ready"
                            [] g.kind = "stop" -> "exhausted"
                            [] OTHER -> "raised"
           /\ yielded' = IF g.kind = "yield" THEN Append(yielded, g.url)
                         ELSE yielded
    /\ UNCHANGED <<configVars, envVars, web_html, mainVars, workVars>>

NextExtract == ExtractNext

SpecExtract == InitExtract /\ [][NextExtract]_vars

(***************************************************************************)
(* Properties of the URL extractor.                                        *)
(***************************************************************************)
\* a path img/tiff16_<expert>/<name>.tif starts at s of t: the expert is
\* configured and the name is one character followed by a 4-digit index
PathAt(t, s) ==
    /\ StartsAt(t, ImgPrefix, s)
    /\ s + 21 <= Len(t)
    /\ \E i \in 1..Len(expert_list) : expert_list[i] = t[s + 11]
    /\ t[s + 12] = "/"
    /\ ~IsSpace(t[s + 13]) /\ t[s + 13] # "/"
    /\ \A k \in 14..17 : IsDigit(t[s + k])
    /\ StartsAt(t, <<".">> \o TifSuffix, s + 18)

\* the index of the path that starts at s
PathIndex(t, s) == DecimalValue(Slice(t, s + 14, s + 17))

\* the paths of t from s on whose index lies in [image_from, image_to], in
\* the order of the text
RECURSIVE SelectedFrom(_, _)
SelectedFrom(t, s) ==
    IF s > Len(t) THEN <<>>
    ELSE IF /\ PathAt(t, s)
            /\ image_from <= PathIndex(t, s)
            /\ PathIndex(t, s) <= image_to
    THEN <<Slice(t, s, s + 21)>> \o SelectedFrom(t, s + 22)
    ELSE SelectedFrom(t, s + 1)

IsPrefix(a, b) == Len(a) <= Len(b) /\ \A i \in 1..Len(a) : a[i] = b[i]

\* C10: for every listing text the generator yields exactly the paths
\* img/tiff16_<expert>/<name>.tif of the text whose expert is configured and
\* whose index lies in [image_from, image_to], in the order of the text
C10_YieldsSelectedPaths ==
    /\ IsPrefix(yielded, SelectedFrom(web_html, 1))
    /\ genState = "exhausted" => yielded = SelectedFrom(web_html, 1)

=============================================================================
